---- MODULE Spec2Model ----
(***************************************************************************)
(* Verification model of jakekidd/braid: the maze (dungeon/maze.rs), the   *)
(* state channel (blockchain/state_channel.rs), the ledger transactions    *)
(* (blockchain/transactions.rs) and the session server                     *)
(* (dungeon/server.rs).                                                    *)
(*                                                                         *)
(* The specifications of the module:                                       *)
(*   SpecMaze     Maze::new followed by Maze::generate                     *)
(*   SpecMazeFair the same with the loop of generate always scheduled      *)
(*   SpecView     Maze::get_masked_maze on any maze and mask               *)
(*   SpecChannel  a StateChannel driven by arbitrary calls                 *)
(*   SpecSign     sign_state followed by verify_state of the signature     *)
(*   SpecLedger   the factories of BlockchainTransaction                   *)
(*   SpecServer   Server::start spawning sessions that run handle_client   *)
(*   SpecClock    the turns and the treasure of one Server to its end      *)
(* A specification keeps the variables of the other components at their    *)
(* idle values.                                                            *)
(***************************************************************************)
EXTENDS Integers, Sequences, FiniteSets, TLC

VARIABLES
    \* Maze (dungeon/maze.rs)
    width, height, grid, frontier, gen_pc,
    \* StateChannel (blockchain/state_channel.rs): the channel, the
    \* arguments it was created with, and the last call with its result;
    \* call also records the last call of get_masked_maze and of a
    \* transaction factory
    channel, new_args, call,
    \* Server (dungeon/server.rs): the server built by Server::new, the
    \* roster, the channel table, the poison flag of the maze mutex, the
    \* session threads with their cloned Server fields, and the numbers of
    \* requests read and answered over all sessions
    server, players, state_channels, maze_poisoned, session, requests_read,
    accepted,
    \* The three mutexes of the Server (dungeon/server.rs) and the threads
    \* that lock them: the callers of add_player and the session threads
    mutex, thread

mazeVars == <<width, height, grid, frontier, gen_pc>>

channelVars == <<channel, new_args, call>>

lockVars == <<mutex, thread>>

serverVars ==
    <<server, players, state_channels, maze_poisoned, session, requests_read,
      accepted, mutex, thread>>

vars ==
    <<width, height, grid, frontier, gen_pc, channel, new_args, call,
      server, players, state_channels, maze_poisoned, session, requests_read,
      accepted, mutex, thread>>

----------------------------------------------------------------------------
(* Bounds *)

MaxWidth == 3
MaxHeight == 3
\* Largest turn_number passed to update_state or carried by a signed state.
MaxTurn == 1
\* Connections accepted by Server::start.
NumSessions == 2
\* Calls of add_player.
MaxPlayers == 2
\* Requests read over all sessions.
MaxRequests == 2
\* Largest max_turns given to Server::new.
MaxMaxTurns == 2
\* Largest max_turns of the server whose turns are followed to the end.
MaxClockTurns == 100
\* Longest path given to submit_path.
MaxPathLen == 2
\* Largest maze get_masked_maze is called on.
MaxViewWidth == 2
MaxViewHeight == 1

----------------------------------------------------------------------------
(* dungeon/maze.rs *)

\* Indices of Cell.walls: [north, east, south, west].
NORTH == 0
EAST == 1
SOUTH == 2
WEST == 3

Cells(w, h) == (0..(w - 1)) \X (0..(h - 1))

\* Cell::new: unvisited, all four walls present.
Cell_new(x, y) ==
    [x |-> x, y |-> y, visited |-> FALSE, walls |-> [i \in 0..3 |-> TRUE]]

\* Maze::new: grid[x][y] = Cell::new(x, y).
Maze_new(w, h) == [c \in Cells(w, h) |-> Cell_new(c[1], c[2])]

\* The maze while another component is exercised.
MazeIdle ==
    /\ width = 1
    /\ height = 1
    /\ grid = Maze_new(1, 1)
    /\ frontier = <<>>
    /\ gen_pc = "idle"

\* get_unvisited_neighbors with the north neighbour forgotten.
get_unvisited_neighbors_no_north(g, w, h, x, y) ==
    (IF x > 0 /\ ~g[<<x - 1, y>>].visited THEN <<(<<x - 1, y>>)>> ELSE <<>>)
    \o (IF x < w - 1 /\ ~g[<<x + 1, y>>].visited THEN <<(<<x + 1, y>>)>> ELSE <<>>)
    \o (IF y < h - 1 /\ ~g[<<x, y + 1>>].visited THEN <<(<<x, y + 1>>)>> ELSE <<>>)

\* Maze::get_unvisited_neighbors: west, east, north, south, in that order.
get_unvisited_neighbors(g, w, h, x, y) ==
    (IF x > 0 /\ ~g[<<x - 1, y>>].visited THEN <<(<<x - 1, y>>)>> ELSE <<>>)
    \o (IF x < w - 1 /\ ~g[<<x + 1, y>>].visited THEN <<(<<x + 1, y>>)>> ELSE <<>>)
    \o (IF y > 0 /\ ~g[<<x, y - 1>>].visited THEN <<(<<x, y - 1>>)>> ELSE <<>>)
    \o (IF y < h - 1 /\ ~g[<<x, y + 1>>].visited THEN <<(<<x, y + 1>>)>> ELSE <<>>)

\* grid[x][y].walls[i] = false
ClearWall(g, c, i) == [g EXCEPT ![c].walls[i] = FALSE]

\* remove_wall clearing only the wall of the first cell.
remove_wall_one_sided(g, x1, y1, x2, y2) ==
    IF x1 = x2
    THEN IF y1 > y2
         THEN ClearWall(g, <<x1, y1>>, NORTH)
         ELSE ClearWall(g, <<x1, y1>>, SOUTH)
    ELSE IF y1 = y2
         THEN IF x1 > x2
              THEN ClearWall(g, <<x1, y1>>, WEST)
              ELSE ClearWall(g, <<x1, y1>>, EAST)
         ELSE g

\* Maze::remove_wall
remove_wall(g, x1, y1, x2, y2) ==
    IF x1 = x2
    THEN IF y1 > y2
         THEN ClearWall(ClearWall(g, <<x1, y1>>, NORTH), <<x2, y2>>, SOUTH)
         ELSE ClearWall(ClearWall(g, <<x1, y1>>, SOUTH), <<x2, y2>>, NORTH)
    ELSE IF y1 = y2
         THEN IF x1 > x2
              THEN ClearWall(ClearWall(g, <<x1, y1>>, WEST), <<x2, y2>>, EAST)
              ELSE ClearWall(ClearWall(g, <<x1, y1>>, EAST), <<x2, y2>>, WEST)
         ELSE g

\* mask[x][y] is in bounds for every x < width and y < height.
MaskIndexable(maze, mask) ==
    \A x \in 0..(maze.width - 1) :
        /\ x < Len(mask)
        /\ \A y \in 0..(maze.height - 1) : y < Len(mask[x + 1])

\* get_masked_maze clearing the visited flag of the cells it copies.
get_masked_maze_unvisits(maze, mask) ==
    [width |-> maze.width,
     height |-> maze.height,
     grid |-> [c \in Cells(maze.width, maze.height) |->
                  IF mask[c[1] + 1][c[2] + 1]
                  THEN [maze.grid[c] EXCEPT !.visited = FALSE]
                  ELSE Cell_new(c[1], c[2])]]

\* get_masked_maze keeping the visited flag of the cells it hides.
get_masked_maze_leaks_visited(maze, mask) ==
    [width |-> maze.width,
     height |-> maze.height,
     grid |-> [c \in Cells(maze.width, maze.height) |->
                  IF mask[c[1] + 1][c[2] + 1]
                  THEN maze.grid[c]
                  ELSE [Cell_new(c[1], c[2]) EXCEPT
                           !.visited = maze.grid[c].visited]]]

\* Maze::get_masked_maze, for a mask it can index.
get_masked_maze(maze, mask) ==
    [width |-> maze.width,
     height |-> maze.height,
     grid |-> [c \in Cells(maze.width, maze.height) |->
                  IF mask[c[1] + 1][c[2] + 1]
                  THEN maze.grid[c]
                  ELSE Cell_new(c[1], c[2])]]

\* The Maze held by the maze variables.
SelfMaze == [width |-> width, height |-> height, grid |-> grid]

\* The fields of Maze and Cell are public, so get_masked_maze can be called
\* on any grid of cells. The contents a cell takes here: as Cell::new left
\* it, visited with its four walls, and visited with its east wall removed.
CellContents == {"new", "visited", "open_east"}

SourceCell(x, y, contents) ==
    IF contents = "new"
    THEN Cell_new(x, y)
    ELSE [x |-> x, y |-> y, visited |-> TRUE,
          walls |-> [i \in 0..3 |-> ~(contents = "open_east" /\ i = EAST)]]

\* vec![vec![b; h]; w]
UniformMask(w, h, b) == [x \in 1..w |-> [y \in 1..h |-> b]]

\* A mask with its last row missing, with a row too many, and with its first
\* row one entry short and one entry long.
Misshapen(m) ==
    {SubSeq(m, 1, Len(m) - 1),
     Append(m, m[1]),
     [m EXCEPT ![1] = SubSeq(@, 1, Len(@) - 1)],
     [m EXCEPT ![1] = Append(@, TRUE)]}

\* The masks get_masked_maze is called with on a w x h maze: every mask of
\* these dimensions, and the misshapen forms of the two uniform ones.
VisibilityMasks(w, h) ==
    [1..w -> [1..h -> BOOLEAN]]
    \cup UNION {Misshapen(UniformMask(w, h, b)) : b \in BOOLEAN}

\* The outcomes of a call of get_masked_maze: it returns a Maze, or an index
\* out of bounds panics.
MaskedOutcome(maze, mask) ==
    IF MaskIndexable(maze, mask)
    THEN [kind |-> "maze", maze |-> get_masked_maze(maze, mask)]
    ELSE [kind |-> "panic"]

\* A Maze of every size within the bounds and every contents of its cells.
InitViewVars ==
    /\ \E w \in 1..MaxViewWidth, h \in 1..MaxViewHeight :
          \E contents \in [Cells(w, h) -> CellContents] :
              /\ width = w
              /\ height = h
              /\ grid = [c \in Cells(w, h) |->
                             SourceCell(c[1], c[2], contents[c])]
    /\ frontier = <<>>
    /\ gen_pc = "built"

----------------------------------------------------------------------------
(* blockchain/state_channel.rs *)

\* Strings and byte vectors are sequences of bytes.
PlayerAddresses == {<<112, 49>>, <<112, 50>>}
ServerAddress == <<115>>
MoveHashes == {<<>>, <<7>>}

\* The secret keys of the two parties of a channel.
PlayerKey == "player_key"
ServerKey == "server_key"
SecretKeys == {PlayerKey, ServerKey}

\* The public key of a key pair (Secp256k1::generate_keypair).
PublicKey(secret_key) == [public_of |-> secret_key]

\* Little-endian encoding of n on k bytes.
RECURSIVE LittleEndian(_, _)
LittleEndian(n, k) ==
    IF k = 0 THEN <<>> ELSE <<n % 256>> \o LittleEndian(n \div 256, k - 1)

\* The encoding of a State with turn_number left out.
bincode_serialize_State_without_turn(state) ==
    LittleEndian(Len(state.player_address), 8) \o state.player_address
    \o LittleEndian(Len(state.move_hash), 8) \o state.move_hash

\* bincode::serialize of a State: the address and the move hash each as a
\* u64 length followed by the bytes, then turn_number as a u64.
bincode_serialize_State(state) ==
    LittleEndian(Len(state.player_address), 8) \o state.player_address
    \o LittleEndian(Len(state.move_hash), 8) \o state.move_hash
    \o LittleEndian(state.turn_number, 8)

\* Sha256::digest, taken to be free of collisions.
Sha256_digest(bytes) == [sha256 |-> bytes]

\* Secp256k1::sign: a signature is determined by the key and the message.
secp_sign(message, secret_key) == [key |-> secret_key, message |-> message]

\* Secp256k1::verify(..).is_ok(): the signature was made over this message
\* by the secret key of this public key.
secp_verify(message, signature, public_key) ==
    /\ signature.message = message
    /\ PublicKey(signature.key) = public_key

State(player_address, move_hash, turn_number) ==
    [player_address |-> player_address, move_hash |-> move_hash,
     turn_number |-> turn_number]

\* Option<Signature>
None == {}
Some(signature) == {signature}

\* StateChannel::new
StateChannel_new(player_address, server_address) ==
    LET initial_state == State(player_address, <<>>, 0)
    IN [player_address |-> player_address,
        server_address |-> server_address,
        initial_state |-> initial_state,
        current_state |-> initial_state,
        player_signature |-> None,
        server_signature |-> None]

\* StateChannel::sign_state: the signature it returns.
sign_state(self, secret_key) ==
    secp_sign(Sha256_digest(bincode_serialize_State(self.current_state)),
              secret_key)

\* update_state storing the player's signature in both slots.
update_state_one_signature(self, move_hash, turn_number, player_signature, server_signature) ==
    [self EXCEPT
        !.current_state = State(self.player_address, move_hash, turn_number),
        !.player_signature = Some(player_signature),
        !.server_signature = Some(player_signature)]

\* update_state writing the new state over initial_state as well.
update_state_resets_initial(self, move_hash, turn_number, player_signature, server_signature) ==
    [self EXCEPT
        !.initial_state = State(self.player_address, move_hash, turn_number),
        !.current_state = State(self.player_address, move_hash, turn_number),
        !.player_signature = Some(player_signature),
        !.server_signature = Some(server_signature)]

\* StateChannel::update_state: the channel it leaves.
update_state(self, move_hash, turn_number, player_signature, server_signature) ==
    [self EXCEPT
        !.current_state = State(self.player_address, move_hash, turn_number),
        !.player_signature = Some(player_signature),
        !.server_signature = Some(server_signature)]

\* StateChannel::verify_state
verify_state(self, state, signature, public_key) ==
    secp_verify(Sha256_digest(bincode_serialize_State(state)), signature,
                public_key)

\* StateChannel::serialize_state
serialize_state(self) == bincode_serialize_State(self.current_state)

\* The signatures a caller can hold: any party's signature of any state of
\* the channel within the bounds.
SignedStates(self) ==
    {State(self.player_address, m, t) : m \in MoveHashes, t \in 0..MaxTurn}

Signatures(self) ==
    {secp_sign(Sha256_digest(bincode_serialize_State(s)), k) :
        s \in SignedStates(self), k \in SecretKeys}

\* The channel while another component is exercised.
ChannelIdle ==
    /\ new_args = [player_address |-> <<112, 49>>,
                   server_address |-> ServerAddress]
    /\ channel = StateChannel_new(<<112, 49>>, ServerAddress)
    /\ call = [op |-> "idle"]

\* State after StateChannel::new(player_address, server_address). No
\* operation of the channel reads an address other than its own.
InitChannelVars ==
    /\ \E p \in {<<112, 50>>} :
          /\ new_args = [player_address |-> p, server_address |-> ServerAddress]
          /\ channel = StateChannel_new(p, ServerAddress)
    /\ call = [op |-> "new"]

\* sign_state keeping the signature it made in the player's slot.
SignStateStoring ==
    /\ \E secret_key \in SecretKeys :
          /\ call' = [op |-> "sign_state", secret_key |-> secret_key,
                      ret |-> sign_state(channel, secret_key)]
          /\ channel' = [channel EXCEPT
                 !.player_signature = Some(sign_state(channel, secret_key))]
    /\ UNCHANGED new_args
    /\ UNCHANGED <<mazeVars, serverVars>>

\* channel.sign_state(&secret_key)
SignState ==
    /\ \E secret_key \in SecretKeys :
          call' = [op |-> "sign_state", secret_key |-> secret_key,
                   ret |-> sign_state(channel, secret_key)]
    /\ UNCHANGED <<channel, new_args>>
    /\ UNCHANGED <<mazeVars, serverVars>>

\* channel.update_state(move_hash, turn_number, player_signature,
\* server_signature); the call records the turn_number the channel had when
\* it was made.
UpdateState ==
    /\ \E move_hash \in MoveHashes, turn_number \in 0..MaxTurn,
          player_signature \in Signatures(channel),
          server_signature \in Signatures(channel) :
          /\ channel' = update_state(channel, move_hash, turn_number,
                                     player_signature, server_signature)
          /\ call' = [op |-> "update_state",
                      move_hash |-> move_hash,
                      turn_number |-> turn_number,
                      player_signature |-> player_signature,
                      server_signature |-> server_signature,
                      turn_before |-> channel.current_state.turn_number,
                      ret |-> "ok"]
    /\ UNCHANGED new_args
    /\ UNCHANGED <<mazeVars, serverVars>>

\* channel.verify_state(&state, &signature, &public_key) on the states and
\* signatures the channel holds or has just returned.
VerifyState ==
    /\ \E state \in {channel.current_state, channel.initial_state},
          signature \in channel.player_signature \cup channel.server_signature
                        \cup {sign_state(channel, k) : k \in SecretKeys},
          secret_key \in SecretKeys :
          call' = [op |-> "verify_state",
                   ret |-> verify_state(channel, state, signature,
                                        PublicKey(secret_key))]
    /\ UNCHANGED <<channel, new_args>>
    /\ UNCHANGED <<mazeVars, serverVars>>

\* The channel of example_usage: fresh from StateChannel::new, or updated
\* once with the player's signature of the fresh state in both slots.
InitSignVars ==
    /\ \E p \in PlayerAddresses :
          LET fresh == StateChannel_new(p, ServerAddress)
              player_sig == sign_state(fresh, PlayerKey)
          IN /\ new_args = [player_address |-> p,
                            server_address |-> ServerAddress]
             /\ \/ channel = fresh
                \/ \E move_hash \in MoveHashes, turn_number \in 0..MaxTurn :
                      channel = update_state(fresh, move_hash, turn_number,
                                             player_sig, player_sig)
    /\ call = [op |-> "new"]

\* The states a caller can pass to verify_state.
VerifiableStates ==
    {State(p, m, t) : p \in PlayerAddresses, m \in MoveHashes, t \in 0..MaxTurn}

\* channel.verify_state(&state, &signature, &public_key) with the signature
\* the last sign_state returned, on any state and against any public key.
VerifySigned ==
    /\ call.op = "sign_state"
    /\ \E state \in VerifiableStates, secret_key \in SecretKeys :
          call' = [op |-> "verify_signed",
                   signed_by |-> call.secret_key,
                   state |-> state,
                   public_key |-> PublicKey(secret_key),
                   ret |-> verify_state(channel, state, call.ret,
                                        PublicKey(secret_key))]
    /\ UNCHANGED <<channel, new_args>>
    /\ UNCHANGED <<mazeVars, serverVars>>

\* channel.serialize_state()
SerializeState ==
    /\ call' = [op |-> "serialize_state", ret |-> serialize_state(channel)]
    /\ UNCHANGED <<channel, new_args>>
    /\ UNCHANGED <<mazeVars, serverVars>>

\* State after Maze::new(width, height), for every size within the bounds.
InitMazeVars ==
    /\ width \in 1..MaxWidth
    /\ height \in 1..MaxHeight
    /\ grid = Maze_new(width, height)
    /\ frontier = <<>>
    /\ gen_pc = "new"

\* Maze::generate, up to the loop: a random start cell is marked visited
\* and pushed on the frontier.
GenerateStart ==
    /\ gen_pc = "new"
    /\ \E start_x \in 0..(width - 1), start_y \in 0..(height - 1) :
          /\ grid' = [grid EXCEPT ![<<start_x, start_y>>].visited = TRUE]
          /\ frontier' = <<(<<start_x, start_y>>)>>
    /\ gen_pc' = "loop"
    /\ UNCHANGED <<width, height>>
    /\ UNCHANGED <<channelVars, serverVars>>

\* The loop iteration without re-adding the current cell to the frontier.
GenerateStepNoRequeue ==
    /\ gen_pc = "loop"
    /\ frontier # <<>>
    /\ LET cx == Head(frontier)[1]
           cy == Head(frontier)[2]
           rest == Tail(frontier)
           neighbors == get_unvisited_neighbors(grid, width, height, cx, cy)
       IN IF neighbors # <<>>
          THEN \E i \in 1..Len(neighbors) :
                  LET nx == neighbors[i][1]
                      ny == neighbors[i][2]
                      carved == remove_wall(grid, cx, cy, nx, ny)
                  IN /\ grid' = [carved EXCEPT ![<<nx, ny>>].visited = TRUE]
                     /\ frontier' = Append(rest, <<nx, ny>>)
          ELSE /\ frontier' = rest
               /\ UNCHANGED grid
    /\ UNCHANGED <<width, height, gen_pc>>
    /\ UNCHANGED <<channelVars, serverVars>>

\* One iteration of the while-let loop of Maze::generate.
GenerateStep ==
    /\ gen_pc = "loop"
    /\ frontier # <<>>
    /\ LET cx == Head(frontier)[1]
           cy == Head(frontier)[2]
           rest == Tail(frontier)
           neighbors == get_unvisited_neighbors(grid, width, height, cx, cy)
       IN IF neighbors # <<>>
          THEN \E i \in 1..Len(neighbors) :
                  LET nx == neighbors[i][1]
                      ny == neighbors[i][2]
                      carved == remove_wall(grid, cx, cy, nx, ny)
                  IN /\ grid' = [carved EXCEPT ![<<nx, ny>>].visited = TRUE]
                     /\ frontier' = Append(Append(rest, <<cx, cy>>), <<nx, ny>>)
          ELSE /\ frontier' = rest
               /\ UNCHANGED grid
    /\ UNCHANGED <<width, height, gen_pc>>
    /\ UNCHANGED <<channelVars, serverVars>>

\* pop_front returns None: generate returns.
GenerateReturn ==
    /\ gen_pc = "loop"
    /\ frontier = <<>>
    /\ gen_pc' = "done"
    /\ UNCHANGED <<width, height, grid, frontier>>
    /\ UNCHANGED <<channelVars, serverVars>>

\* maze.get_masked_maze(&mask), called once on the maze as it was built.
GetMaskedMaze ==
    /\ gen_pc = "built"
    /\ call.op = "idle"
    /\ \E mask \in VisibilityMasks(width, height) :
          call' = [op |-> "get_masked_maze", mask |-> mask,
                   ret |-> MaskedOutcome(SelfMaze, mask)]
    /\ UNCHANGED <<channel, new_args>>
    /\ UNCHANGED <<mazeVars, serverVars>>

\* get_masked_maze(&mask) with the mask of the last call on a maze that
\* differs from this one in one cell the mask hides.
GetMaskedMazeOfVariant ==
    /\ gen_pc = "built"
    /\ call.op = "get_masked_maze"
    /\ call.ret.kind = "maze"
    /\ \E c \in Cells(width, height), contents \in CellContents :
          /\ ~call.mask[c[1] + 1][c[2] + 1]
          /\ grid' = [grid EXCEPT ![c] = SourceCell(c[1], c[2], contents)]
          /\ call' = [call EXCEPT
                 !.ret = MaskedOutcome([SelfMaze EXCEPT !.grid = grid'],
                                       call.mask)]
    /\ UNCHANGED <<width, height, frontier, gen_pc>>
    /\ UNCHANGED <<channel, new_args>>
    /\ UNCHANGED serverVars

----------------------------------------------------------------------------
(* blockchain/transactions.rs *)

\* The receivers fixed by the factories, as the bytes of their names.
treasure_pool == <<116, 114, 101, 97, 115, 117, 114, 101, 95, 112, 111, 111, 108>>
game_contract == <<103, 97, 109, 101, 95, 99, 111, 110, 116, 114, 97, 99, 116>>
audit_contract ==
    <<97, 117, 100, 105, 116, 95, 99, 111, 110, 116, 114, 97, 99, 116>>

\* Senders and receivers of a transaction.
Parties == PlayerAddresses \cup {ServerAddress}

\* Amounts, in tenths of a unit: 0.0, 100.0 and 500.0.
Amounts == {0, 1000, 5000}

\* Coordinates of the cells of a path; 300 takes two bytes.
Coordinates == {0, 1, 300}

\* Vec<(usize, usize)> up to MaxPathLen.
Paths == UNION {[1..n -> Coordinates \X Coordinates] : n \in 0..MaxPathLen}

\* Reasons of slash_claim and data of audit_transaction.
ByteStrings == {<<>>, <<99>>, <<1, 2, 3, 4>>}

\* Proofs of commit_move_on_chain.
Proofs == {<<>>, <<4, 5>>}

\* The unsigned integer whose little-endian encoding is bytes.
RECURSIVE FromLittleEndian(_)
FromLittleEndian(bytes) ==
    IF bytes = <<>>
    THEN 0
    ELSE Head(bytes) + 256 * FromLittleEndian(Tail(bytes))

\* bincode of the elements of a Vec<(usize, usize)>: each usize as a u64.
RECURSIVE bincode_serialize_pairs(_)
bincode_serialize_pairs(path) ==
    IF path = <<>>
    THEN <<>>
    ELSE LittleEndian(Head(path)[1], 8) \o LittleEndian(Head(path)[2], 8)
         \o bincode_serialize_pairs(Tail(path))

\* bincode::serialize(&path): the u64 length, then the elements.
bincode_serialize_path(path) ==
    LittleEndian(Len(path), 8) \o bincode_serialize_pairs(path)

\* The result of a failed bincode::deserialize.
DecodeError == [ok |-> FALSE]

\* bincode of n pairs read from the front of bytes.
RECURSIVE bincode_deserialize_pairs(_, _)
bincode_deserialize_pairs(bytes, n) ==
    IF n = 0
    THEN <<>>
    ELSE << <<FromLittleEndian(SubSeq(bytes, 1, 8)),
              FromLittleEndian(SubSeq(bytes, 9, 16))>> >>
         \o bincode_deserialize_pairs(SubSeq(bytes, 17, Len(bytes)), n - 1)

\* bincode::deserialize::<Vec<(usize, usize)>>(data); bytes after the value
\* are allowed, too few bytes are an error.
bincode_deserialize_path(data) ==
    IF Len(data) < 8
    THEN DecodeError
    ELSE LET n == FromLittleEndian(SubSeq(data, 1, 8))
         IN IF Len(data) < 8 + 16 * n
            THEN DecodeError
            ELSE [ok |-> TRUE,
                  value |-> bincode_deserialize_pairs(
                                SubSeq(data, 9, Len(data)), n)]

\* bincode::deserialize::<State>(data)
bincode_deserialize_State(data) ==
    IF Len(data) < 8
    THEN DecodeError
    ELSE LET a == FromLittleEndian(SubSeq(data, 1, 8))
         IN IF Len(data) < 16 + a
            THEN DecodeError
            ELSE LET m == FromLittleEndian(SubSeq(data, 9 + a, 16 + a))
                 IN IF Len(data) < 24 + a + m
                    THEN DecodeError
                    ELSE [ok |-> TRUE,
                          value |->
                              State(SubSeq(data, 9, 8 + a),
                                    SubSeq(data, 17 + a, 16 + a + m),
                                    FromLittleEndian(
                                        SubSeq(data, 17 + a + m,
                                               24 + a + m)))]

\* BlockchainTransaction::new
BlockchainTransaction_new(sender, receiver, amount, data) ==
    [sender |-> sender, receiver |-> receiver, amount |-> amount,
     data |-> data]

commit_ante(sender, amount) ==
    BlockchainTransaction_new(sender, treasure_pool, amount, <<>>)

submit_path(sender, path) ==
    BlockchainTransaction_new(sender, game_contract, 0,
                              bincode_serialize_path(path))

claim_treasure(sender, amount) ==
    BlockchainTransaction_new(sender, treasure_pool, amount, <<>>)

slash_claim(sender, receiver, reason) ==
    BlockchainTransaction_new(sender, receiver, 0, reason)

audit_transaction(sender, data) ==
    BlockchainTransaction_new(sender, audit_contract, 0, data)

open_state_channel(sender, receiver, initial_state) ==
    BlockchainTransaction_new(sender, receiver, 0,
                              bincode_serialize_State(initial_state))

close_state_channel(sender, receiver, final_state) ==
    BlockchainTransaction_new(sender, receiver, 0,
                              bincode_serialize_State(final_state))

\* commit_move_on_chain with the proof put before the move hash.
commit_move_on_chain_proof_first(sender, move_hash, zk_proof) ==
    BlockchainTransaction_new(sender, game_contract, 0, zk_proof \o move_hash)

commit_move_on_chain(sender, move_hash, zk_proof) ==
    BlockchainTransaction_new(sender, game_contract, 0, move_hash \o zk_proof)

\* The calls of the factories, each made on its own; a call records its
\* arguments and the transaction returned.
CommitAnte ==
    /\ call.op = "idle"
    /\ \E sender \in PlayerAddresses, amount \in Amounts :
          call' = [op |-> "commit_ante", sender |-> sender, amount |-> amount,
                   ret |-> commit_ante(sender, amount)]
    /\ UNCHANGED <<channel, new_args>>
    /\ UNCHANGED <<mazeVars, serverVars>>

SubmitPath ==
    /\ call.op = "idle"
    /\ \E sender \in PlayerAddresses, path \in Paths :
          call' = [op |-> "submit_path", sender |-> sender, path |-> path,
                   ret |-> submit_path(sender, path)]
    /\ UNCHANGED <<channel, new_args>>
    /\ UNCHANGED <<mazeVars, serverVars>>

ClaimTreasure ==
    /\ call.op = "idle"
    /\ \E sender \in PlayerAddresses, amount \in Amounts :
          call' = [op |-> "claim_treasure", sender |-> sender,
                   amount |-> amount, ret |-> claim_treasure(sender, amount)]
    /\ UNCHANGED <<channel, new_args>>
    /\ UNCHANGED <<mazeVars, serverVars>>

SlashClaim ==
    /\ call.op = "idle"
    /\ \E sender \in PlayerAddresses, receiver \in PlayerAddresses,
          reason \in ByteStrings :
          call' = [op |-> "slash_claim", sender |-> sender,
                   receiver |-> receiver, reason |-> reason,
                   ret |-> slash_claim(sender, receiver, reason)]
    /\ UNCHANGED <<channel, new_args>>
    /\ UNCHANGED <<mazeVars, serverVars>>

AuditTransaction ==
    /\ call.op = "idle"
    /\ \E sender \in Parties, data \in ByteStrings :
          call' = [op |-> "audit_transaction", sender |-> sender,
                   data |-> data, ret |-> audit_transaction(sender, data)]
    /\ UNCHANGED <<channel, new_args>>
    /\ UNCHANGED <<mazeVars, serverVars>>

OpenStateChannel ==
    /\ call.op = "idle"
    /\ \E sender \in PlayerAddresses, receiver \in Parties,
          initial_state \in VerifiableStates :
          call' = [op |-> "open_state_channel", sender |-> sender,
                   receiver |-> receiver, state |-> initial_state,
                   ret |-> open_state_channel(sender, receiver,
                                              initial_state)]
    /\ UNCHANGED <<channel, new_args>>
    /\ UNCHANGED <<mazeVars, serverVars>>

CloseStateChannel ==
    /\ call.op = "idle"
    /\ \E sender \in PlayerAddresses, receiver \in Parties,
          final_state \in VerifiableStates :
          call' = [op |-> "close_state_channel", sender |-> sender,
                   receiver |-> receiver, state |-> final_state,
                   ret |-> close_state_channel(sender, receiver, final_state)]
    /\ UNCHANGED <<channel, new_args>>
    /\ UNCHANGED <<mazeVars, serverVars>>

CommitMoveOnChain ==
    /\ call.op = "idle"
    /\ \E sender \in PlayerAddresses, move_hash \in MoveHashes,
          zk_proof \in Proofs :
          call' = [op |-> "commit_move_on_chain", sender |-> sender,
                   move_hash |-> move_hash, zk_proof |-> zk_proof,
                   ret |-> commit_move_on_chain(sender, move_hash, zk_proof)]
    /\ UNCHANGED <<channel, new_args>>
    /\ UNCHANGED <<mazeVars, serverVars>>

\* bincode::deserialize(&tx.data) of the transaction the last call returned,
\* as a path or as a State by the kind of the transaction.
DeserializeData ==
    /\ call.op \in {"submit_path", "open_state_channel",
                     "close_state_channel"}
    /\ call' = [op |-> "deserialize", of |-> call,
                ret |-> IF call.op = "submit_path"
                        THEN bincode_deserialize_path(call.ret.data)
                        ELSE bincode_deserialize_State(call.ret.data)]
    /\ UNCHANGED <<channel, new_args>>
    /\ UNCHANGED <<mazeVars, serverVars>>

----------------------------------------------------------------------------
(* dungeon/server.rs *)

Sessions == 1..NumSessions
PlayerIds == {1, 2}
Commitments == {<<>>, <<9>>}

\* Server::new(2, 1, ..): Maze::new(2, 1) followed by generate, which from
\* either start cell opens the one wall between (0,0) and (1,0).
ServerMaze ==
    LET visited == [c \in Cells(2, 1) |->
                       [Cell_new(c[1], c[2]) EXCEPT !.visited = TRUE]]
    IN [width |-> 2, height |-> 1, grid |-> remove_wall(visited, 0, 0, 1, 0)]

\* Treasure amounts are counted in tenths of a unit.
InitialTreasure == 10000

\* Server::new
Server_new(maze, max_turns, initial_treasure) ==
    [maze |-> maze,
     max_turns |-> max_turns,
     current_turn |-> 0,
     initial_treasure |-> initial_treasure,
     treasure |-> initial_treasure]

\* vec![vec![false; maze.height]; maze.width]
EmptyMask(maze) == [x \in 1..maze.width |-> [y \in 1..maze.height |-> FALSE]]

\* The exploration masks a request can carry for the 2 x 1 maze: three
\* masks of its dimensions, one with a row missing and one with a row too
\* many.
RequestMasks ==
    {<<(<<FALSE>>), (<<FALSE>>)>>,
     <<(<<TRUE>>), (<<FALSE>>)>>,
     <<(<<TRUE>>), (<<TRUE>>)>>,
     <<(<<TRUE>>)>>,
     <<(<<TRUE>>), (<<FALSE>>), (<<TRUE>>)>>}

\* The PlayerData records a client can send.
Requests ==
    [id : PlayerIds, exploration_mask : RequestMasks, commitment : Commitments]

NoRequest == [id |-> 0, exploration_mask |-> <<>>, commitment |-> <<>>]

NoResponse == [width |-> 0, height |-> 0, grid |-> <<>>]

\* players.iter_mut().find(|p| p.id == id): the index of the first entry
\* with this id, 0 when there is none.
FindPlayer(roster, id) ==
    IF \E i \in 1..Len(roster) : roster[i].id = id
    THEN CHOOSE i \in 1..Len(roster) :
            /\ roster[i].id = id
            /\ \A j \in 1..(i - 1) : roster[j].id # id
    ELSE 0

\* player.exploration_mask = player_data.exploration_mask.clone()
store_exploration_mask(roster, i, player_data) ==
    [roster EXCEPT ![i].exploration_mask = player_data.exploration_mask]

\* player.commitment = player_data.commitment.clone()
store_commitment(roster, i, player_data) ==
    [roster EXCEPT ![i].commitment = player_data.commitment]

\* Server::update_player_exploration: the roster it leaves.
update_player_exploration(roster, player_data) ==
    LET i == FindPlayer(roster, player_data.id)
    IN IF i = 0
       THEN roster
       ELSE store_commitment(store_exploration_mask(roster, i, player_data),
                             i, player_data)

\* A roster mutex that excludes nobody.
players_locked_never(sessions) == FALSE

\* self.players.lock(): the roster mutex is held by the session that is
\* between the two assignments of update_player_exploration.
players_locked(sessions) ==
    \E s \in DOMAIN sessions : sessions[s].pc = "update_commitment"

\* update_treasure taking the fee off the treasure it finds.
update_treasure_cumulative(self) ==
    LET fee_increase_start == self.max_turns \div 2
    IN IF self.current_turn > fee_increase_start
       THEN self.treasure - (self.current_turn - fee_increase_start)
       ELSE self.treasure

\* Server::update_treasure: the treasure it leaves. The f64 product with
\* 0.1 is the number of turns past fee_increase_start, in tenths.
update_treasure(self) ==
    LET fee_increase_start == self.max_turns \div 2
    IN IF self.current_turn > fee_increase_start
       THEN self.initial_treasure - (self.current_turn - fee_increase_start)
       ELSE self.treasure

\* handle_client: self.current_turn += 1; self.update_treasure()
advance_turn(self) ==
    LET turned == [self EXCEPT !.current_turn = @ + 1]
    IN [turned EXCEPT !.treasure = update_treasure(turned)]

\* A session thread before its connection is accepted. The server keeps no
\* record of the player a connection belongs to; player is the id the first
\* request on the connection carried (the client sends its own id in every
\* request), 0 before that.
IdleSession ==
    [pc |-> "idle", player |-> 0, current_turn |-> 0, treasure |-> 0,
     request |-> NoRequest, response |-> NoResponse]

\* The mutexes of Server: maze (server.rs:32), players (server.rs:33) and
\* state_channels (server.rs:34).
Mutexes == {"maze", "players", "state_channels"}

\* The threads that lock them: one per concurrent call of add_player and one
\* per accepted connection.
Adders == {<<"add_player", i>> : i \in 1..MaxPlayers}

Handlers == {<<"handle_client", s>> : s \in Sessions}

Threads == Adders \cup Handlers

\* The holder of a mutex nobody holds.
Free == <<>>

\* Mutex::new: unlocked and not poisoned.
Mutex_new == [holder |-> Free, poisoned |-> FALSE]

\* A thread that has not been started.
IdleThread == [pc |-> "idle", current_turn |-> 0, mask |-> <<>>]

\* The mutexes and threads while the locks are not exercised.
LocksIdle ==
    /\ mutex = [m \in Mutexes |-> Mutex_new]
    /\ thread = [t \in Threads |-> IdleThread]

\* The server while another component is exercised.
ServerIdle ==
    /\ server = Server_new(ServerMaze, 1, InitialTreasure)
    /\ players = <<>>
    /\ state_channels = <<>>
    /\ maze_poisoned = FALSE
    /\ session = [s \in Sessions |-> IdleSession]
    /\ requests_read = 0
    /\ accepted = 0
    /\ LocksIdle

\* State after Server::new(2, 1, max_turns, initial_treasure).
InitServerVars ==
    /\ \E max_turns \in 1..MaxMaxTurns :
          server = Server_new(ServerMaze, max_turns, InitialTreasure)
    /\ players = <<>>
    /\ state_channels = <<>>
    /\ maze_poisoned = FALSE
    /\ session = [s \in Sessions |-> IdleSession]
    /\ requests_read = 0
    /\ accepted = 0
    /\ LocksIdle

\* Server::add_player. The maze lock is taken first and held to the end;
\* with the maze mutex poisoned lock().unwrap() panics before any effect.
\* The push waits for the roster lock.
AddPlayer ==
    /\ ~maze_poisoned
    /\ ~players_locked(session)
    /\ Len(players) < MaxPlayers
    /\ \E player_id \in PlayerIds, player_address \in PlayerAddresses :
          /\ players' = Append(players,
                 [id |-> player_id,
                  exploration_mask |-> EmptyMask(server.maze),
                  commitment |-> <<>>])
          /\ state_channels' =
                 [i \in DOMAIN state_channels \cup {player_id} |->
                     IF i = player_id
                     THEN StateChannel_new(player_address, ServerAddress)
                     ELSE state_channels[i]]
    /\ UNCHANGED <<server, maze_poisoned, session, requests_read, accepted>>
    /\ UNCHANGED <<mazeVars, channelVars, lockVars>>

\* Server::start: a connection is accepted and a thread is spawned on a
\* clone of the server, which copies current_turn and treasure.
Spawn(s) ==
    /\ session[s].pc = "idle"
    /\ \A r \in Sessions : r < s => session[r].pc # "idle"
    /\ session' = [session EXCEPT ![s] =
           [pc |-> "read",
            player |-> 0,
            current_turn |-> server.current_turn,
            treasure |-> server.treasure,
            request |-> NoRequest,
            response |-> NoResponse]]
    /\ UNCHANGED <<server, players, state_channels, maze_poisoned,
                   requests_read, accepted>>
    /\ UNCHANGED <<mazeVars, channelVars, lockVars>>

\* The end of a read that counts a turn before the function returns.
ReadEndCountsTurn(s) ==
    /\ session[s].pc = "read"
    /\ \E how \in {"eof", "read_error"} :
          session' = [session EXCEPT
              ![s].pc = how,
              ![s].current_turn = @ + 1]
    /\ UNCHANGED <<server, players, state_channels, maze_poisoned,
                   requests_read, accepted>>
    /\ UNCHANGED <<mazeVars, channelVars, lockVars>>

\* handle_client: stream.read returns Ok(0), or an error that ends the
\* while-let loop; either way the function returns.
ReadEnd(s) ==
    /\ session[s].pc = "read"
    /\ \E how \in {"eof", "read_error"} :
          session' = [session EXCEPT ![s].pc = how]
    /\ UNCHANGED <<server, players, state_channels, maze_poisoned,
                   requests_read, accepted>>
    /\ UNCHANGED <<mazeVars, channelVars, lockVars>>

\* handle_client: the bytes read are not a PlayerData; unwrap panics.
ReadUndecodable(s) ==
    /\ session[s].pc = "read"
    /\ requests_read < MaxRequests
    /\ session' = [session EXCEPT ![s].pc = "panic_decode"]
    /\ requests_read' = requests_read + 1
    /\ UNCHANGED <<server, players, state_channels, maze_poisoned, accepted>>
    /\ UNCHANGED <<mazeVars, channelVars, lockVars>>

\* handle_client: a request is read and decoded.
ReadRequest(s) ==
    /\ session[s].pc = "read"
    /\ requests_read < MaxRequests
    /\ \E request \in Requests :
          session' = [session EXCEPT
              ![s].pc = "update",
              ![s].player = IF @ = 0 THEN request.id ELSE @,
              ![s].request = request]
    /\ requests_read' = requests_read + 1
    /\ UNCHANGED <<server, players, state_channels, maze_poisoned, accepted>>
    /\ UNCHANGED <<mazeVars, channelVars, lockVars>>

\* handle_client: self.update_player_exploration(&request) up to its first
\* assignment. The roster lock is taken and the first entry with the
\* request's id is looked up; without one the function returns, with one
\* the mask is stored and the lock stays held.
UpdatePlayerExploration(s) ==
    /\ session[s].pc = "update"
    /\ ~players_locked(session)
    /\ LET i == FindPlayer(players, session[s].request.id)
       IN IF i = 0
          THEN /\ session' = [session EXCEPT ![s].pc = "view"]
               /\ UNCHANGED players
          ELSE /\ session' = [session EXCEPT ![s].pc = "update_commitment"]
               /\ players' = store_exploration_mask(players, i,
                                                    session[s].request)
    /\ UNCHANGED <<server, state_channels, maze_poisoned, requests_read,
                   accepted>>
    /\ UNCHANGED <<mazeVars, channelVars, lockVars>>

\* update_player_exploration from its second assignment: the commitment is
\* stored in the entry found, and the roster lock is released on return.
StoreCommitment(s) ==
    /\ session[s].pc = "update_commitment"
    /\ players' = store_commitment(players,
                                   FindPlayer(players, session[s].request.id),
                                   session[s].request)
    /\ session' = [session EXCEPT ![s].pc = "view"]
    /\ UNCHANGED <<server, state_channels, maze_poisoned, requests_read,
                   accepted>>
    /\ UNCHANGED <<mazeVars, channelVars, lockVars>>

\* get_player_view masking the server's maze in place.
GetPlayerViewInPlace(s) ==
    /\ session[s].pc = "view"
    /\ IF maze_poisoned
       THEN /\ session' = [session EXCEPT ![s].pc = "panic_poisoned"]
            /\ UNCHANGED <<maze_poisoned, server>>
       ELSE IF ~MaskIndexable(server.maze, session[s].request.exploration_mask)
       THEN /\ session' = [session EXCEPT ![s].pc = "panic_index"]
            /\ maze_poisoned' = TRUE
            /\ UNCHANGED server
       ELSE /\ session' = [session EXCEPT
                   ![s].pc = "respond",
                   ![s].response =
                       get_masked_maze(server.maze,
                                       session[s].request.exploration_mask)]
            /\ server' = [server EXCEPT !.maze = session'[s].response]
            /\ UNCHANGED maze_poisoned
    /\ UNCHANGED <<players, state_channels, requests_read, accepted>>
    /\ UNCHANGED <<mazeVars, channelVars, lockVars>>

\* handle_client: self.get_player_view(&request), under the maze lock.
\* lock().unwrap() panics on a poisoned mutex; an index out of bounds in
\* get_masked_maze panics with the lock held and poisons it.
GetPlayerView(s) ==
    /\ session[s].pc = "view"
    /\ IF maze_poisoned
       THEN /\ session' = [session EXCEPT ![s].pc = "panic_poisoned"]
            /\ UNCHANGED maze_poisoned
       ELSE IF ~MaskIndexable(server.maze, session[s].request.exploration_mask)
       THEN /\ session' = [session EXCEPT ![s].pc = "panic_index"]
            /\ maze_poisoned' = TRUE
       ELSE /\ session' = [session EXCEPT
                   ![s].pc = "respond",
                   ![s].response =
                       get_masked_maze(server.maze,
                                       session[s].request.exploration_mask)]
            /\ UNCHANGED maze_poisoned
    /\ UNCHANGED <<server, players, state_channels, requests_read, accepted>>
    /\ UNCHANGED <<mazeVars, channelVars, lockVars>>

\* handle_client: the response is written, then the session's own
\* current_turn is incremented, update_treasure runs, and the loop breaks
\* when current_turn >= max_turns.
Respond(s) ==
    /\ session[s].pc = "respond"
    /\ LET self == advance_turn(
                       [server EXCEPT
                           !.current_turn = session[s].current_turn,
                           !.treasure = session[s].treasure])
       IN session' = [session EXCEPT
              ![s].current_turn = self.current_turn,
              ![s].treasure = self.treasure,
              ![s].request = NoRequest,
              ![s].response = NoResponse,
              ![s].pc = IF self.current_turn >= self.max_turns
                        THEN "game_over" ELSE "read"]
    /\ accepted' = accepted + 1
    /\ UNCHANGED <<server, players, state_channels, maze_poisoned,
                   requests_read>>
    /\ UNCHANGED <<mazeVars, channelVars, lockVars>>

\* handle_client: write_all fails and unwrap panics.
WriteFails(s) ==
    /\ session[s].pc = "respond"
    /\ session' = [session EXCEPT ![s].pc = "panic_write",
                                  ![s].request = NoRequest,
                                  ![s].response = NoResponse]
    /\ UNCHANGED <<server, players, state_channels, maze_poisoned,
                   requests_read, accepted>>
    /\ UNCHANGED <<mazeVars, channelVars, lockVars>>

\* The treasures a server is created with: the 1000.0 of main, and 2.0.
InitialTreasures == {InitialTreasure, 20}

\* State after Server::new(2, 1, max_turns, initial_treasure), no connection
\* accepted yet.
InitClockVars ==
    /\ \E max_turns \in 0..MaxClockTurns,
          initial_treasure \in InitialTreasures :
          server = Server_new(ServerMaze, max_turns, initial_treasure)
    /\ players = <<>>
    /\ state_channels = <<>>
    /\ maze_poisoned = FALSE
    /\ session = [s \in Sessions |-> IdleSession]
    /\ requests_read = 0
    /\ accepted = 0
    /\ LocksIdle

\* handle_client run by the server itself on one connection whose requests
\* are all answered: each answer advances the turn and updates the
\* treasure, and the loop is left once current_turn >= max_turns.
AdvanceTurn ==
    /\ server.current_turn = 0 \/ server.current_turn < server.max_turns
    /\ server' = advance_turn(server)
    /\ UNCHANGED <<players, state_channels, maze_poisoned, session,
                   requests_read, accepted>>
    /\ UNCHANGED <<mazeVars, channelVars, lockVars>>

----------------------------------------------------------------------------
(* The locks of dungeon/server.rs, one step per lock operation.  A thread *)
(* record keeps the position of the thread, the current_turn of its clone *)
(* of the Server and the exploration mask of the request it is serving.   *)

\* MutexGuard dropped by a panicking thread: every mutex t holds is unlocked
\* and poisoned.
Unwind(mx, t) ==
    [m \in Mutexes |->
        IF mx[m].holder = t THEN [holder |-> Free, poisoned |-> TRUE]
        ELSE mx[m]]

\* lock().unwrap() by thread t on mutex m, reached at position to: the thread
\* waits until the mutex is free; on a poisoned mutex unwrap panics and the
\* thread unwinds.
LockUnwrap(t, m, to) ==
    /\ mutex[m].holder = Free
    /\ IF mutex[m].poisoned
       THEN /\ mutex' = Unwind(mutex, t)
            /\ thread' = [thread EXCEPT ![t].pc = "panicked"]
       ELSE /\ mutex' = [mutex EXCEPT ![m].holder = t]
            /\ thread' = [thread EXCEPT ![t].pc = to]

\* The guard of mutex m dropped by thread t.
Unlock(mx, t, m) ==
    IF mx[m].holder = t THEN [mx EXCEPT ![m].holder = Free] ELSE mx

\* The variables of the server the lock operations leave alone.
LockFrame ==
    /\ UNCHANGED <<server, players, state_channels, maze_poisoned, session,
                   accepted>>
    /\ UNCHANGED <<mazeVars, channelVars>>

\* add_player: self.maze.lock().unwrap().
AddLockMaze(t) ==
    /\ t \in Adders
    /\ thread[t].pc = "add_player"
    /\ LockUnwrap(t, "maze", "add_has_maze")
    /\ UNCHANGED requests_read
    /\ LockFrame

\* add_player: self.players.lock().unwrap(), with the maze guard alive.
AddLockPlayers(t) ==
    /\ t \in Adders
    /\ thread[t].pc = "add_has_maze"
    /\ LockUnwrap(t, "players", "add_has_players")
    /\ UNCHANGED requests_read
    /\ LockFrame

\* add_player: the push; the temporary guard is dropped at the end of the
\* statement.
AddPush(t) ==
    /\ t \in Adders
    /\ thread[t].pc = "add_has_players"
    /\ mutex' = Unlock(mutex, t, "players")
    /\ thread' = [thread EXCEPT ![t].pc = "add_pushed"]
    /\ UNCHANGED requests_read
    /\ LockFrame

\* add_player: self.state_channels.lock().unwrap(), with the maze guard
\* alive.
AddLockStateChannels(t) ==
    /\ t \in Adders
    /\ thread[t].pc = "add_pushed"
    /\ LockUnwrap(t, "state_channels", "add_has_state_channels")
    /\ UNCHANGED requests_read
    /\ LockFrame

\* add_player: the insert; the temporary guard is dropped at the end of the
\* statement and the maze guard at the end of the function.
AddInsert(t) ==
    /\ t \in Adders
    /\ thread[t].pc = "add_has_state_channels"
    /\ mutex' = Unlock(Unlock(mutex, t, "state_channels"), t, "maze")
    /\ thread' = [thread EXCEPT ![t].pc = "returned"]
    /\ UNCHANGED requests_read
    /\ LockFrame

\* The exploration masks of the requests the sessions serve: one with the
\* dimensions of the maze, and one with a single column, which
\* get_masked_maze indexes out of bounds.
LockMasks == {EmptyMask(ServerMaze), <<(<<TRUE>>)>>}

\* handle_client: a request is read and decoded; no lock is held.
HandlerRead(t) ==
    /\ t \in Handlers
    /\ thread[t].pc = "read"
    /\ requests_read < MaxRequests
    /\ \E mask \in LockMasks :
          thread' = [thread EXCEPT ![t].pc = "update", ![t].mask = mask]
    /\ requests_read' = requests_read + 1
    /\ UNCHANGED mutex
    /\ LockFrame

\* handle_client: read returns 0 bytes or an error and the thread returns, or
\* the bytes do not decode and unwrap panics; no lock is held.
HandlerReadEnd(t) ==
    /\ t \in Handlers
    /\ thread[t].pc = "read"
    /\ \E pc \in {"returned", "panicked"} :
          thread' = [thread EXCEPT ![t].pc = pc]
    /\ UNCHANGED <<mutex, requests_read>>
    /\ LockFrame

\* update_player_exploration: self.players.lock().unwrap().
UpdateLockPlayers(t) ==
    /\ t \in Handlers
    /\ thread[t].pc = "update"
    /\ LockUnwrap(t, "players", "update_has_players")
    /\ UNCHANGED requests_read
    /\ LockFrame

\* update_player_exploration returning with the players guard alive (this is
\* not the code).
UpdateKeepsPlayers(t) ==
    /\ t \in Handlers
    /\ thread[t].pc = "update_has_players"
    /\ thread' = [thread EXCEPT ![t].pc = "view"]
    /\ UNCHANGED <<mutex, requests_read>>
    /\ LockFrame

\* update_player_exploration: the two assignments; the guard is dropped at
\* the end of the function.
UpdateUnlockPlayers(t) ==
    /\ t \in Handlers
    /\ thread[t].pc = "update_has_players"
    /\ mutex' = Unlock(mutex, t, "players")
    /\ thread' = [thread EXCEPT ![t].pc = "view"]
    /\ UNCHANGED requests_read
    /\ LockFrame

\* get_player_view: self.maze.lock().unwrap().
ViewLockMaze(t) ==
    /\ t \in Handlers
    /\ thread[t].pc = "view"
    /\ LockUnwrap(t, "maze", "view_has_maze")
    /\ UNCHANGED requests_read
    /\ LockFrame

\* get_player_view: get_masked_maze returns and the guard is dropped at the
\* end of the function, or it indexes the mask out of bounds and the thread
\* unwinds.
ViewMasked(t) ==
    /\ t \in Handlers
    /\ thread[t].pc = "view_has_maze"
    /\ IF MaskIndexable(server.maze, thread[t].mask)
       THEN /\ mutex' = Unlock(mutex, t, "maze")
            /\ thread' = [thread EXCEPT ![t].pc = "respond"]
       ELSE /\ mutex' = Unwind(mutex, t)
            /\ thread' = [thread EXCEPT ![t].pc = "panicked"]
    /\ UNCHANGED requests_read
    /\ LockFrame

\* handle_client: the response is written, current_turn is incremented and
\* the loop breaks when current_turn >= max_turns; or write_all fails and
\* unwrap panics. No lock is held.
HandlerRespond(t) ==
    /\ t \in Handlers
    /\ thread[t].pc = "respond"
    /\ \/ thread' = [thread EXCEPT
             ![t].current_turn = @ + 1,
             ![t].mask = <<>>,
             ![t].pc = IF thread[t].current_turn + 1 >= server.max_turns
                       THEN "returned" ELSE "read"]
       \/ thread' = [thread EXCEPT ![t].pc = "panicked", ![t].mask = <<>>]
    /\ UNCHANGED <<mutex, requests_read>>
    /\ LockFrame

\* The steps of thread t that take, hold or release a lock, or follow its
\* last release: all but the reads from the connection.
LockStep(t) ==
    \/ AddLockMaze(t)
    \/ AddLockPlayers(t)
    \/ AddPush(t)
    \/ AddLockStateChannels(t)
    \/ AddInsert(t)
    \/ UpdateLockPlayers(t)
    \/ UpdateUnlockPlayers(t)
    \/ ViewLockMaze(t)
    \/ ViewMasked(t)
    \/ HandlerRespond(t)

\* State after Server::new(2, 1, max_turns, initial_treasure) with
\* add_player called on MaxPlayers threads and NumSessions connections
\* accepted.
InitLockVars ==
    /\ \E max_turns \in 1..MaxMaxTurns :
          server = Server_new(ServerMaze, max_turns, InitialTreasure)
    /\ players = <<>>
    /\ state_channels = <<>>
    /\ maze_poisoned = FALSE
    /\ session = [s \in Sessions |-> IdleSession]
    /\ requests_read = 0
    /\ accepted = 0
    /\ mutex = [m \in Mutexes |-> Mutex_new]
    /\ thread = [t \in Threads |->
                    [IdleThread EXCEPT
                        !.pc = IF t \in Adders THEN "add_player" ELSE "read"]]

----------------------------------------------------------------------------
(* Specifications *)

InitMaze == InitMazeVars /\ ChannelIdle /\ ServerIdle

NextMaze ==
    \/ GenerateStart
    \/ GenerateStep
    \/ GenerateReturn

SpecMaze == InitMaze /\ [][NextMaze]_vars

\* generate runs on one thread that is never descheduled for ever.
SpecMazeFair == SpecMaze /\ WF_vars(NextMaze)

InitView == InitViewVars /\ ChannelIdle /\ ServerIdle

NextView ==
    \/ GetMaskedMaze
    \/ GetMaskedMazeOfVariant

SpecView == InitView /\ [][NextView]_vars

InitChannel == InitChannelVars /\ MazeIdle /\ ServerIdle

NextChannel ==
    \/ SignState
    \/ UpdateState
    \/ VerifyState
    \/ SerializeState

SpecChannel == InitChannel /\ [][NextChannel]_vars

InitSign == InitSignVars /\ MazeIdle /\ ServerIdle

NextSign ==
    \/ SignState
    \/ VerifySigned

SpecSign == InitSign /\ [][NextSign]_vars

InitLedger == MazeIdle /\ ChannelIdle /\ ServerIdle

NextLedger ==
    \/ CommitAnte
    \/ SubmitPath
    \/ ClaimTreasure
    \/ SlashClaim
    \/ AuditTransaction
    \/ OpenStateChannel
    \/ CloseStateChannel
    \/ CommitMoveOnChain
    \/ DeserializeData

SpecLedger == InitLedger /\ [][NextLedger]_vars

InitClock == InitClockVars /\ MazeIdle /\ ChannelIdle

NextClock == AdvanceTurn

SpecClock == InitClock /\ [][NextClock]_vars

InitServer == InitServerVars /\ MazeIdle /\ ChannelIdle

NextServer ==
    \/ AddPlayer
    \/ \E s \in Sessions :
          \/ Spawn(s)
          \/ ReadEnd(s)
          \/ ReadUndecodable(s)
          \/ ReadRequest(s)
          \/ UpdatePlayerExploration(s)
          \/ StoreCommitment(s)
          \/ GetPlayerView(s)
          \/ Respond(s)
          \/ WriteFails(s)

SpecServer == InitServer /\ [][NextServer]_vars

InitLocks == InitLockVars /\ MazeIdle /\ ChannelIdle

NextLocks ==
    \E t \in Threads :
        \/ AddLockMaze(t)
        \/ AddLockPlayers(t)
        \/ AddPush(t)
        \/ AddLockStateChannels(t)
        \/ AddInsert(t)
        \/ HandlerRead(t)
        \/ HandlerReadEnd(t)
        \/ UpdateLockPlayers(t)
        \/ UpdateUnlockPlayers(t)
        \/ ViewLockMaze(t)
        \/ ViewMasked(t)
        \/ HandlerRespond(t)

SpecLocks == InitLocks /\ [][NextLocks]_vars

\* Every thread that can take a step other than a read from its connection
\* is scheduled eventually.
SpecLocksFair == SpecLocks /\ \A t \in Threads : WF_vars(LockStep(t))

----------------------------------------------------------------------------
(* Properties of the session server *)

Connected_Sessions == {s \in Sessions : session[s].pc # "idle"}

\* C1: the turn counter is one value shared by all sessions: when N
\* requests have been accepted over all sessions (N <= max_turns), the turn
\* counter every connected session holds is N.
C1_SharedTurnCounter ==
    accepted <= server.max_turns =>
        \A s \in Connected_Sessions : session[s].current_turn = accepted

\* C2: the end of the game is global: the number of requests processed over
\* all sessions never exceeds max_turns, and once it has reached max_turns
\* no session is processing a request.
C2_GlobalGameEnd ==
    /\ accepted <= server.max_turns
    /\ accepted >= server.max_turns =>
          \A s \in Sessions : session[s].pc \notin {"respond"}

----------------------------------------------------------------------------
(* Properties of the state channel *)

\* The state an update_state call asks for.
RequestedState == State(channel.player_address, call.move_hash, call.turn_number)

\* Both signatures passed to the last update_state call verify against the
\* state it asked for, each under its party's public key.
CallSignaturesValid ==
    /\ verify_state(channel, RequestedState, call.player_signature,
                    PublicKey(PlayerKey))
    /\ verify_state(channel, RequestedState, call.server_signature,
                    PublicKey(ServerKey))

\* C3: update_state with a turn_number not greater than the current one is
\* rejected with StaleUpdate and leaves the channel unchanged, so
\* current_state.turn_number never decreases.
C3_StaleUpdateRejected ==
    [][/\ (call'.op = "update_state"
            /\ call'.turn_number <= channel.current_state.turn_number)
          => (call'.ret = "StaleUpdate" /\ channel' = channel)
       /\ channel'.current_state.turn_number
            >= channel.current_state.turn_number]_vars

\* C4: update_state verifies both signatures against the new state before
\* changing anything; when one of them does not verify (the turn_number
\* being greater than the current one) the call is rejected with
\* InvalidSignature and the channel is unchanged.
C4_InvalidSignatureRejected ==
    [][(/\ call'.op = "update_state"
        /\ call'.turn_number > channel.current_state.turn_number
        /\ ~(/\ verify_state(channel,
                    State(channel.player_address, call'.move_hash,
                          call'.turn_number),
                    call'.player_signature, PublicKey(PlayerKey))
             /\ verify_state(channel,
                    State(channel.player_address, call'.move_hash,
                          call'.turn_number),
                    call'.server_signature, PublicKey(ServerKey))))
       => (call'.ret = "InvalidSignature" /\ channel' = channel)]_vars

\* C5: a channel that holds both signatures is finalized: the player
\* signature verifies against current_state under the player's public key
\* and the server signature under the server's public key.
C5_SignaturesVerify ==
    (channel.player_signature # None /\ channel.server_signature # None) =>
        /\ \A sig \in channel.player_signature :
              verify_state(channel, channel.current_state, sig,
                           PublicKey(PlayerKey))
        /\ \A sig \in channel.server_signature :
              verify_state(channel, channel.current_state, sig,
                           PublicKey(ServerKey))

\* C6: update_state with a turn_number greater than the current one and two
\* signatures valid over the new state makes current_state the state
\* (player_address of the channel, move_hash, turn_number) and stores exactly
\* the two signatures given.
C6_UpdateApplies ==
    (/\ call.op = "update_state"
     /\ call.turn_number > call.turn_before
     /\ CallSignaturesValid)
    => /\ channel.current_state
            = State(new_args.player_address, call.move_hash, call.turn_number)
       /\ channel.player_signature = Some(call.player_signature)
       /\ channel.server_signature = Some(call.server_signature)

C6_Witness ==
    /\ call.op = "update_state"
    /\ call.turn_number > call.turn_before
    /\ CallSignaturesValid
    /\ call.move_hash # <<>>
    /\ channel.current_state.turn_number = call.turn_number

\* C7: a channel created by new(player, server) has initial_state =
\* current_state = (player, empty move_hash, turn 0) and no signatures, and
\* after any sequence of calls initial_state is still that state.
C7_InitialStateFixed ==
    /\ channel.initial_state = State(new_args.player_address, <<>>, 0)
    /\ call.op = "new" =>
          /\ channel.current_state = channel.initial_state
          /\ channel.player_signature = None
          /\ channel.server_signature = None
          /\ channel.player_address = new_args.player_address
          /\ channel.server_address = new_args.server_address

C7_Witness ==
    /\ call.op \in {"sign_state", "verify_state", "serialize_state"}
    /\ channel.current_state # channel.initial_state
    /\ channel.player_signature # None
    /\ channel.initial_state = State(new_args.player_address, <<>>, 0)

----------------------------------------------------------------------------
(* Properties of the maze *)

AllCells == Cells(width, height)

\* b is the grid neighbour of a in one of the four directions.
Adjacent(a, b) ==
    \/ a[1] = b[1] /\ (a[2] = b[2] + 1 \/ b[2] = a[2] + 1)
    \/ a[2] = b[2] /\ (a[1] = b[1] + 1 \/ b[1] = a[1] + 1)

\* Index of the wall of a that faces its neighbour b: north/south along y,
\* west/east along x.
Facing(a, b) ==
    IF a[1] = b[1]
    THEN IF b[2] < a[2] THEN NORTH ELSE SOUTH
    ELSE IF b[1] < a[1] THEN WEST ELSE EAST

\* The walls between adjacent cells that are absent, each counted once from
\* its western or northern cell.
RemovedWalls ==
    {e \in AllCells \X AllCells :
        /\ Adjacent(e[1], e[2])
        /\ (e[2][1] = e[1][1] + 1 \/ e[2][2] = e[1][2] + 1)
        /\ ~grid[e[1]].walls[Facing(e[1], e[2])]}

OpenNeighbors(c) ==
    {d \in AllCells : Adjacent(c, d) /\ ~grid[c].walls[Facing(c, d)]}

RECURSIVE ReachableFrom(_)
ReachableFrom(S) ==
    LET T == S \cup UNION {OpenNeighbors(c) : c \in S}
    IN IF T = S THEN S ELSE ReachableFrom(T)

Connected == \A c \in AllCells : ReachableFrom({c}) = AllCells

\* Repeatedly drop the cells with at most one open neighbour left; what
\* remains lies on a cycle or between cycles.
RECURSIVE PruneLeaves(_)
PruneLeaves(V) ==
    LET leaves == {v \in V : Cardinality(OpenNeighbors(v) \cap V) <= 1}
    IN IF leaves = {} THEN V ELSE PruneLeaves(V \ leaves)

Acyclic == PruneLeaves(AllCells) = {}

AllVisited == \A c \in AllCells : grid[c].visited

\* C8: the maze left by generate is a spanning tree of the grid: exactly
\* width*height - 1 walls between adjacent cells are removed, every cell is
\* reachable from every other cell through open walls, and there is no
\* cycle.
C8_SpanningTree ==
    gen_pc = "done" =>
        /\ Cardinality(RemovedWalls) = width * height - 1
        /\ Connected
        /\ Acyclic

C8_Witness ==
    /\ gen_pc = "done"
    /\ width >= 2
    /\ height >= 2
    /\ Cardinality(RemovedWalls) = width * height - 1

\* C9: in every state during and after generation, for adjacent cells a and
\* b the wall of a facing b is absent iff the wall of b facing a is absent,
\* and no wall on the outer boundary of the grid is removed.
C9_WallSymmetry ==
    /\ \A a \in AllCells, b \in AllCells :
          Adjacent(a, b) =>
              (grid[a].walls[Facing(a, b)] = grid[b].walls[Facing(b, a)])
    /\ \A c \in AllCells :
          /\ (c[1] = 0 => grid[c].walls[WEST])
          /\ (c[1] = width - 1 => grid[c].walls[EAST])
          /\ (c[2] = 0 => grid[c].walls[NORTH])
          /\ (c[2] = height - 1 => grid[c].walls[SOUTH])

C9_Witness ==
    /\ gen_pc = "loop"
    /\ ~AllVisited
    /\ \E a \in AllCells, b \in AllCells :
          /\ Adjacent(a, b)
          /\ ~grid[a].walls[Facing(a, b)]
          /\ ~grid[b].walls[Facing(b, a)]

\* C10: generate terminates, and when it has terminated the frontier is
\* empty and every cell of the grid is visited.
C10_Terminates ==
    /\ <>(gen_pc = "done")
    /\ [](gen_pc = "done" => (frontier = <<>> /\ AllVisited))

C10_Witness ==
    /\ gen_pc = "done"
    /\ frontier = <<>>
    /\ AllVisited
    /\ width = MaxWidth
    /\ height = 1

----------------------------------------------------------------------------
(* Properties of get_masked_maze *)

\* The mask has the dimensions of the maze.
SameDimensions(maze, mask) ==
    /\ Len(mask) = maze.width
    /\ \A x \in 1..Len(mask) : Len(mask[x]) = maze.height

Pristine(cell) ==
    /\ ~cell.visited
    /\ \A i \in 0..3 : cell.walls[i]

C11_Cells ==
    (call.op = "get_masked_maze" /\ SameDimensions(SelfMaze, call.mask)) =>
        /\ call.ret.kind = "maze"
        /\ call.ret.maze.width = width
        /\ call.ret.maze.height = height
        /\ DOMAIN call.ret.maze.grid = Cells(width, height)
        /\ \A c \in Cells(width, height) :
              IF call.mask[c[1] + 1][c[2] + 1]
              THEN call.ret.maze.grid[c] = grid[c]
              ELSE /\ call.ret.maze.grid[c].x = c[1]
                   /\ call.ret.maze.grid[c].y = c[2]
                   /\ Pristine(call.ret.maze.grid[c])
        /\ call.mask = UniformMask(width, height, TRUE)
              => call.ret.maze = SelfMaze
        /\ call.mask = UniformMask(width, height, FALSE)
              => \A c \in Cells(width, height) :
                     Pristine(call.ret.maze.grid[c])

C11_SourceKept ==
    (call.op = "idle" /\ call'.op = "get_masked_maze")
        => <<width, height, grid>>' = <<width, height, grid>>

\* C11: for a mask with the maze's dimensions get_masked_maze returns a
\* maze of the same width and height whose cell at (x, y) is the source
\* cell where mask[x][y] is true and a pristine cell at (x, y) (not visited,
\* four walls) where it is false; an all-true mask returns the source, an
\* all-false mask an all-pristine maze, and the call leaves the source maze
\* as it was.
C11_MaskedMaze == []C11_Cells /\ [][C11_SourceKept]_vars

\* A 2-wide maze masked to show an opened cell and hide a visited one.
C11_Witness ==
    /\ call.op = "get_masked_maze"
    /\ SameDimensions(SelfMaze, call.mask)
    /\ width = 2
    /\ call.mask[1][1] /\ ~call.mask[2][1]
    /\ grid[<<0, 0>>].visited /\ ~grid[<<0, 0>>].walls[EAST]
    /\ grid[<<1, 0>>].visited
    /\ call.ret.kind = "maze"
    /\ call.ret.maze.grid[<<0, 0>>] = grid[<<0, 0>>]
    /\ ~call.ret.maze.grid[<<1, 0>>].visited

\* C12: masking with a mask whose dimensions differ from the maze's fails
\* with a DimensionMismatch error value: it returns no maze and does not
\* abort.
C12_DimensionMismatch ==
    (call.op = "get_masked_maze" /\ ~SameDimensions(SelfMaze, call.mask))
        => call.ret.kind = "DimensionMismatch"

\* C13: the masked maze does not depend on hidden cells: the same mask on
\* two mazes of the same dimensions that agree on every cell where the mask
\* is true gives the same result.
C13_HiddenCellsDoNotShow ==
    [][(/\ call.op = "get_masked_maze"
        /\ call'.op = "get_masked_maze"
        /\ call'.mask = call.mask
        /\ SameDimensions(SelfMaze, call.mask)
        /\ width' = width
        /\ height' = height
        /\ \A c \in Cells(width, height) :
              call.mask[c[1] + 1][c[2] + 1] => grid'[c] = grid[c])
       => call'.ret = call.ret]_vars

\* The result of masking a maze whose hidden cell (1, 0) was visited and
\* opened, after a call on a maze whose cell (1, 0) was not.
C13_Witness ==
    /\ call.op = "get_masked_maze"
    /\ SameDimensions(SelfMaze, call.mask)
    /\ width = 2
    /\ call.mask[1][1] /\ ~call.mask[2][1]
    /\ grid[<<1, 0>>].visited /\ ~grid[<<1, 0>>].walls[EAST]
    /\ call.ret.kind = "maze"
    /\ Pristine(call.ret.maze.grid[<<1, 0>>])

----------------------------------------------------------------------------
(* Properties of the roster and of failing sessions *)

\* mask[x][y] is present and true (x, y counted from 1).
Revealed(mask, x, y) ==
    /\ x <= Len(mask)
    /\ y <= Len(mask[x])
    /\ mask[x][y]

\* C14: monotonic reveal: a cell that is true in a player's stored
\* exploration mask stays true after every later request, whatever mask the
\* request carries.
C14_MonotonicReveal ==
    [][\A i \in 1..Len(players) :
          \A x \in 1..server.maze.width, y \in 1..server.maze.height :
              Revealed(players[i].exploration_mask, x, y)
                  => Revealed(players'[i].exploration_mask, x, y)]_vars

\* The ways handle_client ends on a request it cannot serve.
FailedRequest == {"panic_decode", "panic_index"}

\* C15: a failure while a session handles a request (it cannot be decoded,
\* or its mask cannot be applied to the maze) ends only that session: the
\* request leaves the roster as it was, the turn counter and the treasure
\* keep their values, and the maze lock can still be acquired by every
\* other session.
C15_FailureIsolated ==
    [][\A s \in Sessions :
          /\ (/\ session[s].pc \in {"update", "update_commitment"}
              /\ session'[s] # session[s]
              /\ ~MaskIndexable(server.maze,
                                session[s].request.exploration_mask))
             => players' = players
          /\ (session'[s].pc \in FailedRequest /\ session'[s] # session[s])
             => /\ ~maze_poisoned'
                /\ session'[s].current_turn = session[s].current_turn
                /\ session'[s].treasure = session[s].treasure
                /\ server' = server]_vars

\* C19: a request processed on a player's connection changes only that
\* player's roster entry: the entries of all other players keep their mask
\* and commitment.
C19_OwnEntryOnly ==
    [][\A s \in Sessions :
          (/\ session[s].pc \in {"update", "update_commitment"}
           /\ session'[s] # session[s])
          => \A i \in 1..Len(players) :
                 players[i].id # session[s].player
                     => players'[i] = players[i]]_vars

\* C20: the mask and the commitment of an entry are updated atomically:
\* while a session is between the two assignments no other step changes the
\* roster and no other session enters it; the session leaves for the view
\* with both fields of the entry taken from its own request; a request
\* without an entry writes nothing.
C20_AtomicUpdate ==
    [][\A s \in Sessions :
          LET request == session[s].request
          IN /\ (/\ session[s].pc = "update_commitment"
                 /\ session'[s].pc = "update_commitment")
                => /\ players' = players
                   /\ \A r \in Sessions \ {s} :
                         session[r].pc = "update" => session'[r].pc = "update"
             /\ (/\ session[s].pc = "update_commitment"
                 /\ session'[s].pc # "update_commitment")
                => /\ session'[s].pc = "view"
                   /\ players' = update_player_exploration(players', request)
                   /\ LET i == FindPlayer(players', request.id)
                      IN /\ i # 0
                         /\ players'[i].exploration_mask
                               = request.exploration_mask
                         /\ players'[i].commitment = request.commitment
             /\ (session[s].pc = "update" /\ session'[s].pc = "view")
                => players' = players]_vars

\* A session holds the roster lock with the mask of its request stored and
\* the commitment not yet, while another session waits with a request for
\* the same player and another mask.
C20_Witness ==
    \E s \in Sessions, r \in Sessions :
        /\ s # r
        /\ session[s].pc = "update_commitment"
        /\ session[r].pc = "update"
        /\ session[r].request.id = session[s].request.id
        /\ session[r].request.exploration_mask
              # session[s].request.exploration_mask
        /\ LET i == FindPlayer(players, session[s].request.id)
           IN /\ players[i].exploration_mask
                    = session[s].request.exploration_mask
              /\ players[i].commitment # session[s].request.commitment

----------------------------------------------------------------------------
(* Properties of the treasure *)

C16_Formula ==
    LET over == server.current_turn - server.max_turns \div 2
    IN /\ server.treasure
            = server.initial_treasure - (IF over > 0 THEN over ELSE 0)
       /\ (server.max_turns = 100 /\ server.initial_treasure = 10000)
            => /\ server.current_turn = 50 => server.treasure = 10000
               /\ server.current_turn = 60 => server.treasure = 9990
               /\ server.current_turn = 100 => server.treasure = 9950

\* C16: after every turn advance the stored treasure is initial_treasure
\* less a tenth for every turn past max_turns / 2 (integer quotient),
\* counted in tenths: with 1000.0 and max_turns 100 it is 1000.0 at turn
\* 50, 999.0 at turn 60 and 995.0 at turn 100; and the treasure never
\* increases as the turn advances.
C16_Treasure ==
    /\ []C16_Formula
    /\ [][server'.current_turn > server.current_turn
            => server'.treasure <= server.treasure]_vars

\* Turn 60 of 100 with the treasure at 999.0.
C16_Witness ==
    /\ server.max_turns = 100
    /\ server.initial_treasure = 10000
    /\ server.current_turn = 60
    /\ server.treasure = 9990

----------------------------------------------------------------------------
(* Properties of sign_state and verify_state *)

\* C17: a signature of the state s under the key k verifies against s and
\* the public key of k; it does not verify against the public key of
\* another key, nor against a state that differs from s in player_address,
\* in move_hash or in turn_number.
C17_SignVerify ==
    call.op = "verify_signed" =>
        LET signed == channel.current_state
        IN /\ (/\ call.state = signed
               /\ call.public_key = PublicKey(call.signed_by))
              => call.ret
           /\ call.public_key # PublicKey(call.signed_by) => ~call.ret
           /\ (\/ call.state.player_address # signed.player_address
               \/ call.state.move_hash # signed.move_hash
               \/ call.state.turn_number # signed.turn_number)
              => ~call.ret

\* A signature verified under the signer's public key against a state that
\* differs from the signed one in turn_number only.
C17_Witness ==
    /\ call.op = "verify_signed"
    /\ call.public_key = PublicKey(call.signed_by)
    /\ call.state.player_address = channel.current_state.player_address
    /\ call.state.move_hash = channel.current_state.move_hash
    /\ call.state.turn_number # channel.current_state.turn_number
    /\ ~call.ret

----------------------------------------------------------------------------
(* Properties of the ledger transactions *)

\* The sender, receiver, amount and data of the transaction returned.
Yields(sender, receiver, amount, data) ==
    /\ call.ret.sender = sender
    /\ call.ret.receiver = receiver
    /\ call.ret.amount = amount
    /\ call.ret.data = data

\* C18: every factory yields the sender, receiver, amount and data fixed
\* for its kind: commit_ante and claim_treasure the given amount to
\* "treasure_pool" with no data; submit_path 0 to "game_contract" with the
\* encoded path; commit_move_on_chain 0 to "game_contract" with move_hash
\* followed by the proof; slash_claim 0 from accuser to accused with the
\* reason; audit_transaction 0 to "audit_contract" with the caller's
\* bytes; open_state_channel and close_state_channel 0 from player to
\* server with the encoded State; and decoding the data of submit_path,
\* open and close gives back the path or the State.
C18_Factories ==
    /\ call.op \in {"commit_ante", "claim_treasure"} =>
          Yields(call.sender,
                 <<116, 114, 101, 97, 115, 117, 114, 101, 95, 112, 111, 111,
                   108>>,
                 call.amount, <<>>)
    /\ call.op = "submit_path" =>
          /\ Yields(call.sender,
                    <<103, 97, 109, 101, 95, 99, 111, 110, 116, 114, 97, 99,
                      116>>,
                    0, bincode_serialize_path(call.path))
          /\ Len(call.ret.data) = 8 + 16 * Len(call.path)
    /\ call.op = "commit_move_on_chain" =>
          /\ Yields(call.sender,
                    <<103, 97, 109, 101, 95, 99, 111, 110, 116, 114, 97, 99,
                      116>>,
                    0, call.ret.data)
          /\ Len(call.ret.data) = Len(call.move_hash) + Len(call.zk_proof)
          /\ SubSeq(call.ret.data, 1, Len(call.move_hash)) = call.move_hash
          /\ SubSeq(call.ret.data, Len(call.move_hash) + 1,
                    Len(call.ret.data)) = call.zk_proof
    /\ call.op = "slash_claim" =>
          Yields(call.sender, call.receiver, 0, call.reason)
    /\ call.op = "audit_transaction" =>
          Yields(call.sender,
                 <<97, 117, 100, 105, 116, 95, 99, 111, 110, 116, 114, 97,
                   99, 116>>,
                 0, call.data)
    /\ call.op \in {"open_state_channel", "close_state_channel"} =>
          Yields(call.sender, call.receiver, 0,
                 bincode_serialize_State(call.state))
    /\ call.op = "deserialize" =>
          /\ call.ret.ok
          /\ call.ret.value = IF call.of.op = "submit_path"
                              THEN call.of.path
                              ELSE call.of.state

\* The data of submit_path decoded back to a path of two cells, one of
\* them with a coordinate of two bytes.
C18_Witness ==
    /\ call.op = "deserialize"
    /\ call.of.op = "submit_path"
    /\ call.ret.ok
    /\ call.ret.value = << <<0, 1>>, <<300, 1>> >>

----------------------------------------------------------------------------
(* Properties of the server's maze, of its responses and of add_player *)

\* C21: the server's maze is read-only after Server::new: whatever
\* add_player calls and requests were processed, its dimensions and every
\* cell (coordinates, visited flag, walls) are those Server::new built; a
\* player view is a Maze of its own.
C21_MazeReadOnly ==
    /\ server.maze.width = 2
    /\ server.maze.height = 1
    /\ DOMAIN server.maze.grid = Cells(2, 1)
    /\ \A c \in Cells(2, 1) :
          /\ server.maze.grid[c].x = c[1]
          /\ server.maze.grid[c].y = c[2]
          /\ server.maze.grid[c].visited
          /\ \A i \in 0..3 :
                server.maze.grid[c].walls[i]
                    = ~(<<c[1], i>> \in {<<0, EAST>>, <<1, WEST>>})

\* With a player registered, a session holds a view that hides a cell of
\* the maze while another session has been answered.
C21_Witness ==
    /\ Len(players) > 0
    /\ accepted > 0
    /\ \E s \in Sessions :
          /\ session[s].pc = "respond"
          /\ session[s].response # server.maze
          /\ session[s].response.width = 2

----------------------------------------------------------------------------
(* Frame of sign_state and verify_state *)

\* C22: sign_state and verify_state are read-only on the channel: after
\* either call both addresses, initial_state, current_state and both stored
\* signatures are what they were before; and the signature sign_state
\* returns is one of the channel's current_state at the time of the call.
C22_ReadOnlyCalls ==
    [][/\ call'.op \in {"sign_state", "verify_state"} =>
             /\ channel'.player_address = channel.player_address
             /\ channel'.server_address = channel.server_address
             /\ channel'.initial_state = channel.initial_state
             /\ channel'.current_state = channel.current_state
             /\ channel'.player_signature = channel.player_signature
             /\ channel'.server_signature = channel.server_signature
       /\ call'.op = "sign_state" =>
             \A state \in SignedStates(channel) :
                 verify_state(channel, state, call'.ret,
                              PublicKey(call'.secret_key))
                     <=> state = channel.current_state]_vars

\* sign_state has returned on a channel that holds both signatures and a
\* current_state other than the initial one.
C22_Witness ==
    /\ call.op = "sign_state"
    /\ channel.player_signature # None
    /\ channel.server_signature # None
    /\ channel.current_state # channel.initial_state
    /\ verify_state(channel, channel.current_state, call.ret,
                    PublicKey(call.secret_key))

\* C23: an empty read while a session awaits a request closes that session
\* without an error and without effect: the session was awaiting a
\* request, it does not panic, it sends no response, and the roster, the
\* channels, the maze and its lock, the server's and every session's turn
\* counter and treasure are unchanged.
C23_EmptyReadCloses ==
    [][\A s \in Sessions :
          (session'[s].pc = "eof" /\ session[s].pc # "eof") =>
              /\ session[s].pc = "read"
              /\ session'[s].response = NoResponse
              /\ accepted' = accepted
              /\ players' = players
              /\ state_channels' = state_channels
              /\ server' = server
              /\ maze_poisoned' = maze_poisoned
              /\ \A r \in Sessions :
                    /\ session'[r].current_turn = session[r].current_turn
                    /\ session'[r].treasure = session[r].treasure
                    /\ r # s => session'[r] = session[r]]_vars

\* A session closed by an empty read after it had answered a request, with
\* a player registered.
C23_Witness ==
    /\ Len(players) > 0
    /\ \E s \in Sessions :
          /\ session[s].pc = "eof"
          /\ session[s].current_turn > 0

\* C24: a response reveals the true state of a cell only if the cell is
\* true in the stored exploration mask of a registered player with the
\* request's id at the time the response is computed; a request whose id
\* matches no registered player gets no cell revealed.
C24_StoredMaskOnly ==
    [][\A s \in Sessions :
          (session[s].pc = "view" /\ session'[s].pc = "respond") =>
              \A c \in Cells(server.maze.width, server.maze.height) :
                  session'[s].response.grid[c] = server.maze.grid[c] =>
                      \E i \in 1..Len(players) :
                          /\ players[i].id = session[s].request.id
                          /\ Revealed(players[i].exploration_mask,
                                      c[1] + 1, c[2] + 1)]_vars

\* The ids with an entry in the roster.
RegisteredIds == {players[i].id : i \in 1..Len(players)}

C26_OneEach ==
    \A id \in RegisteredIds :
        /\ Cardinality({i \in 1..Len(players) : players[i].id = id}) = 1
        /\ id \in DOMAIN state_channels

C26_AddKeeps ==
    Len(players') = Len(players) + 1 =>
        /\ players'[Len(players')].exploration_mask
              = [x \in 1..server.maze.width |->
                    [y \in 1..server.maze.height |-> FALSE]]
        /\ \A id \in DOMAIN state_channels :
              state_channels'[id] = state_channels[id]

\* C26: after any sequence of add_player calls, repeated ids included, every
\* registered id has exactly one roster entry and one StateChannel; the mask
\* of a newly added player is all false with the maze's dimensions; and a
\* later add_player never replaces or resets the StateChannel of an existing
\* player.
C26_AddPlayer == []C26_OneEach /\ [][C26_AddKeeps]_vars

----------------------------------------------------------------------------
(* Properties of the server's locks *)

\* The mutex the next step of thread t locks, "none" when its next step
\* locks nothing.
Wants(t) ==
    CASE thread[t].pc = "add_player" -> "maze"
      [] thread[t].pc = "add_has_maze" -> "players"
      [] thread[t].pc = "add_pushed" -> "state_channels"
      [] thread[t].pc = "update" -> "players"
      [] thread[t].pc = "view" -> "maze"
      [] OTHER -> "none"

\* The thread t waits for: the holder of the mutex t wants, Free when t
\* waits for nobody.
WaitsFor(t) ==
    IF t = Free \/ Wants(t) = "none" THEN Free ELSE mutex[Wants(t)].holder

RECURSIVE Follow(_, _)
\* The thread reached from t along n waits.
Follow(t, n) == IF n = 0 THEN t ELSE WaitsFor(Follow(t, n - 1))

\* Thread t waits, directly or through other threads, for a mutex it holds
\* itself.
InCyclicWait(t) == \E n \in 1..Cardinality(Threads) : Follow(t, n) = t

Exited(t) == thread[t].pc \in {"returned", "panicked"}

Held(m) == mutex[m].holder # Free

C25_NoCyclicWait == \A t \in Threads : ~InCyclicWait(t)

C25_ExitedHoldsNone ==
    \A t \in Threads : Exited(t) => \A m \in Mutexes : mutex[m].holder # t

\* C25: under any interleaving of concurrent add_player calls and session
\* request processing, the maze, players and state_channels mutexes are never
\* held in a cyclic wait, a thread that has returned or panicked holds no
\* mutex, and every mutex that is held is eventually released.
C25_NoDeadlock ==
    /\ [](C25_NoCyclicWait /\ C25_ExitedHoldsNone)
    /\ \A m \in Mutexes : Held(m) ~> ~Held(m)

\* An add_player call holds the maze mutex and waits for the players mutex,
\* which a session holds, while another session waits for the maze mutex.
C25_Witness ==
    \E a \in Adders, h \in Handlers, w \in Handlers :
        /\ mutex["maze"].holder = a
        /\ mutex["players"].holder = h
        /\ WaitsFor(a) = h
        /\ WaitsFor(w) = a
====
